---- MODULE Spec2Model ----
(***************************************************************************)
(* A model of Phaser's LightPipeline                                       *)
(* (src/src/renderer/webgl/pipelines/LightPipeline.js): the batched        *)
(* light-quad accumulator (batchVert, batchLight), the normal-map rotation *)
(* tracker (setNormalMapRotation), the normal-map binder (getNormalMap,    *)
(* setGameObject, setTexture2D) and the light-uniform sync (onRender).     *)
(*                                                                         *)
(* Floating-point values are modelled by small integers (products are      *)
(* exact); angles are counted in quarter turns, for which cos and sin are  *)
(* exact.  The handlers are operators from a pipeline state record to the  *)
(* state after the call, so that a handler can call another one as the     *)
(* code does; every action of Next applies one whole handler.              *)
(***************************************************************************)
EXTENDS Integers, Sequences, FiniteSets, TLC

\* ------------------------------------------------------------------ bounds

\* Number of vertices the batch buffer holds (WebGLPipeline.vertexCapacity).
VertexCapacity == 13

\* Angles are 0 .. MaxAngle quarter turns.
MaxAngle == 2

\* The configured maximum number of lights (config.maxLights).
MaxLights == 2

\* ------------------------------------------------------- program constants

\* LIGHT_COUNT = config.game.renderer.config.maxLights
LIGHT_COUNT == MaxLights

\* Components per vertex: inPosition 2, inLightPosition 2, inLightRadius 1,
\* inLightColor 4.
vertexComponentCount == 2 + 2 + 1 + 4

\* Vertices of one light quad (two triangles).
QuadVerts == 6

\* this.currentNormalMapRotation is never assigned by the constructor, and
\* onRender assigns null to it; both are values no angle equals.
UNDEFINED == 0 - 2
NULL == 0 - 1

Angles == 0 .. MaxAngle

\* The lights of the scene: more than the pipeline is configured to render.
LightIds == { 1, 2, 3 }

Slots == 0 .. (LIGHT_COUNT - 1)

BufferCells == 0 .. (VertexCapacity * vertexComponentCount - 1)

\* ------------------------------------------------------------------ state

VARIABLES
    vertexCount,                \* this.vertexCount
    vertexViewF32,              \* this.vertexViewF32, the batch buffer
    currentNormalMapRotation,   \* this.currentNormalMapRotation
    inverseRotationMatrix,      \* this.inverseRotationMatrix (9 entries)
    lightCount,                 \* this.lightCount
    active,                     \* this.active
    uLights,                    \* the uLights[i] uniforms of the program
    uInverseRotationMatrix,     \* the uInverseRotationMatrix uniform
    uCamera,                    \* the uCamera uniform
    uAmbientLightColor,         \* the uAmbientLightColor uniform
    textureZero,                \* renderer: texture bound to unit 0
    normalTexture,              \* renderer: normal map bound to unit 1
    lights,                     \* the Light objects of the light manager
    calls,                      \* renderer / GL calls made by the last handler, in order
    last,                       \* the last handler called and its arguments
    run                         \* the batchLight calls made in a row since an empty batch

vars == << vertexCount, vertexViewF32, currentNormalMapRotation,
           inverseRotationMatrix, lightCount, active, uLights,
           uInverseRotationMatrix, uCamera, uAmbientLightColor, textureZero,
           normalTexture, lights, calls, last, run >>

\* The pipeline, its renderer's bindings and the lights as one record.
This ==
    [ vertexCount |-> vertexCount,
      vertexViewF32 |-> vertexViewF32,
      currentNormalMapRotation |-> currentNormalMapRotation,
      inverseRotationMatrix |-> inverseRotationMatrix,
      lightCount |-> lightCount,
      active |-> active,
      uLights |-> uLights,
      uInverseRotationMatrix |-> uInverseRotationMatrix,
      uCamera |-> uCamera,
      uAmbientLightColor |-> uAmbientLightColor,
      textureZero |-> textureZero,
      normalTexture |-> normalTexture,
      lights |-> lights,
      calls |-> << >> ]

Becomes(s) ==
    /\ vertexCount' = s.vertexCount
    /\ vertexViewF32' = s.vertexViewF32
    /\ currentNormalMapRotation' = s.currentNormalMapRotation
    /\ inverseRotationMatrix' = s.inverseRotationMatrix
    /\ lightCount' = s.lightCount
    /\ active' = s.active
    /\ uLights' = s.uLights
    /\ uInverseRotationMatrix' = s.uInverseRotationMatrix
    /\ uCamera' = s.uCamera
    /\ uAmbientLightColor' = s.uAmbientLightColor
    /\ textureZero' = s.textureZero
    /\ normalTexture' = s.normalTexture
    /\ lights' = s.lights
    /\ calls' = s.calls

\* One renderer / GL call: its kind, the slot or vertex it is about, its values.
Call(op, at, v) == [ op |-> op, at |-> at, v |-> v ]

Log(s, op, at, v) == [ s EXCEPT !.calls = Append(@, Call(op, at, v)) ]

\* ------------------------------------------------ WebGLPipeline (base class)

\* WebGLPipeline.shouldFlush(amount): no room for `amount` more vertices.
shouldFlush(s, amount) == s.vertexCount + amount > VertexCapacity

\* WebGLPipeline.flush(): submit the accumulated vertices as one draw and
\* reset the write cursor.
flush(s) == [ Log(s, "flush", s.vertexCount, << >>) EXCEPT !.vertexCount = 0 ]

\* -------------------------------------------------------------- batchVert

\* batchVert counting the vertex before it computes the write offset.
batchVert_countFirst(s, x, y, lightX, lightY, radius, r, g, b, a) ==
    LET vertexOffset == (s.vertexCount + 1) * vertexComponentCount
    IN  [ s EXCEPT !.vertexViewF32 =
                       [ @ EXCEPT ![vertexOffset] = x,
                                  ![vertexOffset + 1] = y,
                                  ![vertexOffset + 2] = lightX,
                                  ![vertexOffset + 3] = lightY,
                                  ![vertexOffset + 4] = radius,
                                  ![vertexOffset + 5] = r,
                                  ![vertexOffset + 6] = g,
                                  ![vertexOffset + 7] = b,
                                  ![vertexOffset + 8] = a ],
                   !.vertexCount = @ + 1,
                   !.calls = Append(@, Call("vert", s.vertexCount,
                                            << x, y, lightX, lightY, radius, r, g, b, a >>)) ]

batchVert(s, x, y, lightX, lightY, radius, r, g, b, a) ==
    LET vertexOffset == s.vertexCount * vertexComponentCount
    IN  [ s EXCEPT !.vertexViewF32 =
                       [ @ EXCEPT ![vertexOffset] = x,
                                  ![vertexOffset + 1] = y,
                                  ![vertexOffset + 2] = lightX,
                                  ![vertexOffset + 3] = lightY,
                                  ![vertexOffset + 4] = radius,
                                  ![vertexOffset + 5] = r,
                                  ![vertexOffset + 6] = g,
                                  ![vertexOffset + 7] = b,
                                  ![vertexOffset + 8] = a ],
                   !.vertexCount = @ + 1,
                   !.calls = Append(@, Call("vert", s.vertexCount,
                                            << x, y, lightX, lightY, radius, r, g, b, a >>)) ]

\* ------------------------------------------------------------- batchLight

\* batchLight checking for room only once its first vertex is written.
batchLight_lateCheck(s, light, camera, q, lightX, lightY) ==
    LET radius == light.radius
        r == light.color.r * light.intensity
        g == light.color.g * light.intensity
        b == light.color.b * light.intensity
        a == camera.alpha * light.alpha
        s1 == batchVert(s, q.x0, q.y0, lightX, lightY, radius, r, g, b, a)
        s0 == IF shouldFlush(s1, QuadVerts - 1) THEN flush(s1) ELSE s1
        s2 == batchVert(s0, q.x1, q.y1, lightX, lightY, radius, r, g, b, a)
        s3 == batchVert(s2, q.x2, q.y2, lightX, lightY, radius, r, g, b, a)
        s4 == batchVert(s3, q.x0, q.y0, lightX, lightY, radius, r, g, b, a)
        s5 == batchVert(s4, q.x2, q.y2, lightX, lightY, radius, r, g, b, a)
    IN  batchVert(s5, q.x3, q.y3, lightX, lightY, radius, r, g, b, a)

\* batchLight with the second triangle on the corners c1, c2, c3.
batchLight_stripOrder(s, light, camera, q, lightX, lightY) ==
    LET radius == light.radius
        r == light.color.r * light.intensity
        g == light.color.g * light.intensity
        b == light.color.b * light.intensity
        a == camera.alpha * light.alpha
        s0 == IF shouldFlush(s, QuadVerts) THEN flush(s) ELSE s
        s1 == batchVert(s0, q.x0, q.y0, lightX, lightY, radius, r, g, b, a)
        s2 == batchVert(s1, q.x1, q.y1, lightX, lightY, radius, r, g, b, a)
        s3 == batchVert(s2, q.x2, q.y2, lightX, lightY, radius, r, g, b, a)
        s4 == batchVert(s3, q.x1, q.y1, lightX, lightY, radius, r, g, b, a)
        s5 == batchVert(s4, q.x2, q.y2, lightX, lightY, radius, r, g, b, a)
    IN  batchVert(s5, q.x3, q.y3, lightX, lightY, radius, r, g, b, a)

\* batchLight leaving the camera's alpha out of the vertex alpha.
batchLight_lightAlpha(s, light, camera, q, lightX, lightY) ==
    LET radius == light.radius
        r == light.color.r * light.intensity
        g == light.color.g * light.intensity
        b == light.color.b * light.intensity
        a == light.alpha
        s0 == IF shouldFlush(s, QuadVerts) THEN flush(s) ELSE s
        s1 == batchVert(s0, q.x0, q.y0, lightX, lightY, radius, r, g, b, a)
        s2 == batchVert(s1, q.x1, q.y1, lightX, lightY, radius, r, g, b, a)
        s3 == batchVert(s2, q.x2, q.y2, lightX, lightY, radius, r, g, b, a)
        s4 == batchVert(s3, q.x0, q.y0, lightX, lightY, radius, r, g, b, a)
        s5 == batchVert(s4, q.x2, q.y2, lightX, lightY, radius, r, g, b, a)
    IN  batchVert(s5, q.x3, q.y3, lightX, lightY, radius, r, g, b, a)

\* batchLight asking for the room of one vertex only.
batchLight_roomForOne(s, light, camera, q, lightX, lightY) ==
    LET radius == light.radius
        r == light.color.r * light.intensity
        g == light.color.g * light.intensity
        b == light.color.b * light.intensity
        a == camera.alpha * light.alpha
        s0 == IF shouldFlush(s, 1) THEN flush(s) ELSE s
        s1 == batchVert(s0, q.x0, q.y0, lightX, lightY, radius, r, g, b, a)
        s2 == batchVert(s1, q.x1, q.y1, lightX, lightY, radius, r, g, b, a)
        s3 == batchVert(s2, q.x2, q.y2, lightX, lightY, radius, r, g, b, a)
        s4 == batchVert(s3, q.x0, q.y0, lightX, lightY, radius, r, g, b, a)
        s5 == batchVert(s4, q.x2, q.y2, lightX, lightY, radius, r, g, b, a)
    IN  batchVert(s5, q.x3, q.y3, lightX, lightY, radius, r, g, b, a)

batchLight(s, light, camera, q, lightX, lightY) ==
    LET radius == light.radius
        r == light.color.r * light.intensity
        g == light.color.g * light.intensity
        b == light.color.b * light.intensity
        a == camera.alpha * light.alpha
        s0 == IF shouldFlush(s, QuadVerts) THEN flush(s) ELSE s
        s1 == batchVert(s0, q.x0, q.y0, lightX, lightY, radius, r, g, b, a)
        s2 == batchVert(s1, q.x1, q.y1, lightX, lightY, radius, r, g, b, a)
        s3 == batchVert(s2, q.x2, q.y2, lightX, lightY, radius, r, g, b, a)
        s4 == batchVert(s3, q.x0, q.y0, lightX, lightY, radius, r, g, b, a)
        s5 == batchVert(s4, q.x2, q.y2, lightX, lightY, radius, r, g, b, a)
    IN  batchVert(s5, q.x3, q.y3, lightX, lightY, radius, r, g, b, a)

\* --------------------------------------------------- setNormalMapRotation

\* Math.cos and Math.sin of an angle given in quarter turns.
Cos(q) == CASE q % 4 = 0 -> 1 [] q % 4 = 2 -> 0 - 1 [] OTHER -> 0

Sin(q) == CASE q % 4 = 1 -> 1 [] q % 4 = 3 -> 0 - 1 [] OTHER -> 0

\* new Float32Array([ 1, 0, 0, 0, 1, 0, 0, 0, 1 ]); entry [i] of the code is
\* entry i + 1 here.
IdentityMatrix == << 1, 0, 0, 0, 1, 0, 0, 0, 1 >>

\* The assignments without the branch for a rotation of 0.
rotateMatrix_keepWhenZero(m, rotation) ==
    IF rotation # 0
    THEN LET rot == 0 - rotation
             c == Cos(rot)
             sn == Sin(rot)
         IN  [ m EXCEPT ![2] = sn, ![4] = 0 - sn, ![1] = c, ![5] = c ]
    ELSE m

\* The assignments to inverseRotationMatrix made for `rotation`.
rotateMatrix(m, rotation) ==
    IF rotation # 0
    THEN LET rot == 0 - rotation
             c == Cos(rot)
             sn == Sin(rot)
         IN  [ m EXCEPT ![2] = sn, ![4] = 0 - sn, ![1] = c, ![5] = c ]
    ELSE [ m EXCEPT ![1] = 1, ![5] = 1, ![2] = 0, ![4] = 0 ]

\* setNormalMapRotation without the test for an empty batch.
setNormalMapRotation_onlyOnChange(s, rotation) ==
    IF rotation # s.currentNormalMapRotation
    THEN LET s0 == IF s.vertexCount > 0 THEN flush(s) ELSE s
             m == rotateMatrix(s0.inverseRotationMatrix, rotation)
             s1 == [ s0 EXCEPT !.inverseRotationMatrix = m,
                               !.uInverseRotationMatrix = m,
                               !.currentNormalMapRotation = rotation ]
         IN  Log(s1, "uInverseRotationMatrix", 0, m)
    ELSE s

\* setNormalMapRotation flushing after the upload.
setNormalMapRotation_uploadFirst(s, rotation) ==
    IF rotation # s.currentNormalMapRotation \/ s.vertexCount = 0
    THEN LET m == rotateMatrix(s.inverseRotationMatrix, rotation)
             s1 == [ s EXCEPT !.inverseRotationMatrix = m,
                              !.uInverseRotationMatrix = m,
                              !.currentNormalMapRotation = rotation ]
             s2 == Log(s1, "uInverseRotationMatrix", 0, m)
         IN  IF s2.vertexCount > 0 THEN flush(s2) ELSE s2
    ELSE s

\* setNormalMapRotation doing nothing whenever vertices are pending.
setNormalMapRotation_skipWhenPending(s, rotation) ==
    IF s.vertexCount = 0
    THEN LET m == rotateMatrix(s.inverseRotationMatrix, rotation)
             s1 == [ s EXCEPT !.inverseRotationMatrix = m,
                              !.uInverseRotationMatrix = m,
                              !.currentNormalMapRotation = rotation ]
         IN  Log(s1, "uInverseRotationMatrix", 0, m)
    ELSE s

setNormalMapRotation(s, rotation) ==
    IF rotation # s.currentNormalMapRotation \/ s.vertexCount = 0
    THEN LET s0 == IF s.vertexCount > 0 THEN flush(s) ELSE s
             m == rotateMatrix(s0.inverseRotationMatrix, rotation)
             s1 == [ s0 EXCEPT !.inverseRotationMatrix = m,
                               !.uInverseRotationMatrix = m,
                               !.currentNormalMapRotation = rotation ]
         IN  Log(s1, "uInverseRotationMatrix", 0, m)
    ELSE s

\* ----------------------------------------------------------- getNormalMap

\* boot: this.defaultNormalMap = { glTexture: tempTexture }
defaultNormalMap == "defaultNormalMap"

\* A game object is a record, with `given` false when the caller passed no
\* game object; its displayTexture, texture and tileset are "absent" (the property is not
\* set), "nodata" (set, but its dataSource holds no entry), or the
\* data source found there (named by its glTexture).
getNormalMap(gameObject) ==
    LET normalMap ==
            IF ~gameObject.given THEN defaultNormalMap
            ELSE IF gameObject.displayTexture # "absent" THEN gameObject.displayTexture
            ELSE IF gameObject.texture # "absent" THEN gameObject.texture
            ELSE IF gameObject.tileset # "absent" THEN gameObject.tileset
            ELSE "nodata"
    IN  IF normalMap = "nodata" THEN defaultNormalMap ELSE normalMap

\* ------------------------------------------- renderer (texture binding layer)

\* WebGLRenderer.isNewNormalMap: the resolved normal map differs from the
\* one that is bound.
isNewNormalMap(s, normalMap) == s.normalTexture # normalMap

setTextureZero(s, texture) ==
    [ Log(s, "setTextureZero", 0, << >>) EXCEPT !.textureZero = texture ]

setNormalMap(s, normalMap) ==
    [ Log(s, "setNormalMap", 0, << >>) EXCEPT !.normalTexture = normalMap ]

\* renderer.tempTextures[0]
tempTexture0 == "tempTexture0"

\* ------------------------------------------- setGameObject / setTexture2D

\* The bind without renderer.setNormalMap(normalTexture).
bindNormalMap_noSetNormalMap(s, texture, normalMap) ==
    IF isNewNormalMap(s, normalMap)
    THEN setTextureZero(flush(s), texture)
    ELSE s

\* The bind flushing after it has bound the textures.
bindNormalMap_flushLast(s, texture, normalMap) ==
    IF isNewNormalMap(s, normalMap)
    THEN flush(setNormalMap(setTextureZero(s, texture), normalMap))
    ELSE s

\* if (renderer.isNewNormalMap()) { flush; setTextureZero; setNormalMap }
bindNormalMap(s, texture, normalMap) ==
    IF isNewNormalMap(s, normalMap)
    THEN setNormalMap(setTextureZero(flush(s), texture), normalMap)
    ELSE s

\* `frame` is the frame given, or "none" for gameObject.frame.
setGameObject(s, gameObject, frame) ==
    LET texture == IF frame = "none" THEN gameObject.frame ELSE frame
        normalMap == getNormalMap(gameObject)
    IN  setNormalMapRotation(bindNormalMap(s, texture, normalMap), gameObject.rotation)

\* `texture` is the texture given, or "none" for renderer.tempTextures[0].
setTexture2D(s, texture, gameObject) ==
    LET tex == IF texture = "none" THEN tempTexture0 ELSE texture
        normalMap == getNormalMap(gameObject)
        rotation == IF gameObject.given THEN gameObject.rotation ELSE 0
    IN  setNormalMapRotation(bindNormalMap(s, tex, normalMap), rotation)

\* --------------------------------------------------------------- onRender

Min(a, b) == IF a < b THEN a ELSE b

\* TransformMatrix.transformPoint(x, y, point)
transformPoint(m, x, y) ==
    [ x |-> x * m.a + y * m.c + m.e, y |-> x * m.b + y * m.d + m.f ]

\* for (i = 0; i < LIGHT_COUNT; i++) setFloat1(program, 'uLights[i].radius', 0)
\* The reset loop stopping one slot early.
RECURSIVE resetLights_skipLast(_, _)
resetLights_skipLast(s, i) ==
    IF i < LIGHT_COUNT - 1
    THEN resetLights_skipLast([ Log(s, "radius", i, << 0 >>) EXCEPT !.uLights[i].radius = 0 ], i + 1)
    ELSE s

RECURSIVE resetLights(_, _)
resetLights(s, i) ==
    IF i < LIGHT_COUNT
    THEN resetLights([ Log(s, "radius", i, << 0 >>) EXCEPT !.uLights[i].radius = 0 ], i + 1)
    ELSE s

\* syncLight without the test of light.dirty.
syncLight_alwaysUpload(s, i, id, camera, height) ==
    LET light == s.lights[id]
        point == transformPoint(camera.matrix, light.x, light.y)
        position == << point.x - (camera.scrollX * light.scrollFactorX * camera.zoom),
                       height - (point.y - (camera.scrollY * light.scrollFactorY) * camera.zoom) >>
        color == << light.r, light.g, light.b >>
        s0 == [ Log(s, "position", i, position) EXCEPT !.uLights[i].position = position ]
        s1 == [ Log(s0, "color", i, color) EXCEPT !.uLights[i].color = color ]
        s2 == [ Log(s1, "intensity", i, << light.intensity >>)
                   EXCEPT !.uLights[i].intensity = light.intensity ]
        s3 == [ Log(s2, "radius", i, << light.radius >>)
                   EXCEPT !.uLights[i].radius = light.radius ]
    IN  [ s3 EXCEPT !.lights[id].dirty = FALSE ]

syncLight(s, i, id, camera, height) ==
    LET light == s.lights[id]
        point == transformPoint(camera.matrix, light.x, light.y)
        position == << point.x - (camera.scrollX * light.scrollFactorX * camera.zoom),
                       height - (point.y - (camera.scrollY * light.scrollFactorY) * camera.zoom) >>
        s0 == [ Log(s, "position", i, position) EXCEPT !.uLights[i].position = position ]
    IN  IF light.dirty
        THEN LET color == << light.r, light.g, light.b >>
                 s1 == [ Log(s0, "color", i, color) EXCEPT !.uLights[i].color = color ]
                 s2 == [ Log(s1, "intensity", i, << light.intensity >>)
                            EXCEPT !.uLights[i].intensity = light.intensity ]
                 s3 == [ Log(s2, "radius", i, << light.radius >>)
                            EXCEPT !.uLights[i].radius = light.radius ]
             IN  [ s3 EXCEPT !.lights[id].dirty = FALSE ]
        ELSE s0

\* for (i = 0; i < lightCount; i++) { ... }
RECURSIVE syncLights(_, _, _, _, _, _)
syncLights(s, i, n, culled, camera, height) ==
    IF i < n
    THEN syncLights(syncLight(s, i, culled[i + 1], camera, height), i + 1, n, culled, camera, height)
    ELSE s

\* onRender without the return for an empty culled list.
onRender_noEmptyReturn(s, manager, culled, camera, height, ambient) ==
    LET off == [ s EXCEPT !.active = FALSE ]
        n == Min(Len(culled), LIGHT_COUNT)
    IN  IF manager # "active" THEN off
        ELSE LET s0 == [ off EXCEPT !.active = TRUE ]
                 s1 == IF n # s0.lightCount
                       THEN [ resetLights(s0, 0) EXCEPT !.lightCount = n ]
                       ELSE s0
                 cam == << camera.x, camera.y, camera.rotation, camera.zoom >>
                 s2 == IF camera.dirty
                       THEN [ Log(s1, "uCamera", 0, cam) EXCEPT !.uCamera = cam ]
                       ELSE s1
                 s3 == [ Log(s2, "uAmbientLightColor", 0, ambient)
                            EXCEPT !.uAmbientLightColor = ambient ]
                 s4 == syncLights(s3, 0, n, culled, camera, height)
             IN  [ s4 EXCEPT !.currentNormalMapRotation = NULL ]

\* onRender without the assignment of null to currentNormalMapRotation.
onRender_keepRotation(s, manager, culled, camera, height, ambient) ==
    LET off == [ s EXCEPT !.active = FALSE ]
        n == Min(Len(culled), LIGHT_COUNT)
    IN  IF manager # "active" THEN off
        ELSE IF n = 0 THEN off
        ELSE LET s0 == [ off EXCEPT !.active = TRUE ]
                 s1 == IF n # s0.lightCount
                       THEN [ resetLights(s0, 0) EXCEPT !.lightCount = n ]
                       ELSE s0
                 cam == << camera.x, camera.y, camera.rotation, camera.zoom >>
                 s2 == IF camera.dirty
                       THEN [ Log(s1, "uCamera", 0, cam) EXCEPT !.uCamera = cam ]
                       ELSE s1
                 s3 == [ Log(s2, "uAmbientLightColor", 0, ambient)
                            EXCEPT !.uAmbientLightColor = ambient ]
                 s4 == syncLights(s3, 0, n, culled, camera, height)
             IN  s4

\* onRender without the test of camera.dirty.
onRender_cameraAlways(s, manager, culled, camera, height, ambient) ==
    LET off == [ s EXCEPT !.active = FALSE ]
        n == Min(Len(culled), LIGHT_COUNT)
    IN  IF manager # "active" THEN off
        ELSE IF n = 0 THEN off
        ELSE LET s0 == [ off EXCEPT !.active = TRUE ]
                 s1 == IF n # s0.lightCount
                       THEN [ resetLights(s0, 0) EXCEPT !.lightCount = n ]
                       ELSE s0
                 cam == << camera.x, camera.y, camera.rotation, camera.zoom >>
                 s2 == [ Log(s1, "uCamera", 0, cam) EXCEPT !.uCamera = cam ]
                 s3 == [ Log(s2, "uAmbientLightColor", 0, ambient)
                            EXCEPT !.uAmbientLightColor = ambient ]
                 s4 == syncLights(s3, 0, n, culled, camera, height)
             IN  [ s4 EXCEPT !.currentNormalMapRotation = NULL ]

\* onRender resetting the radii after the per-light uploads.
onRender_resetLast(s, manager, culled, camera, height, ambient) ==
    LET off == [ s EXCEPT !.active = FALSE ]
        n == Min(Len(culled), LIGHT_COUNT)
    IN  IF manager # "active" THEN off
        ELSE IF n = 0 THEN off
        ELSE LET s0 == [ off EXCEPT !.active = TRUE ]
                 s1 == IF n # s0.lightCount
                       THEN [ s0 EXCEPT !.lightCount = n ]
                       ELSE s0
                 cam == << camera.x, camera.y, camera.rotation, camera.zoom >>
                 s2 == IF camera.dirty
                       THEN [ Log(s1, "uCamera", 0, cam) EXCEPT !.uCamera = cam ]
                       ELSE s1
                 s3 == [ Log(s2, "uAmbientLightColor", 0, ambient)
                            EXCEPT !.uAmbientLightColor = ambient ]
                 s5 == syncLights(s3, 0, n, culled, camera, height)
                 s4 == IF n # s0.lightCount THEN resetLights(s5, 0) ELSE s5
             IN  [ s4 EXCEPT !.currentNormalMapRotation = NULL ]

\* onRender without Math.min(lights.length, LIGHT_COUNT).
onRender_allLights(s, manager, culled, camera, height, ambient) ==
    LET off == [ s EXCEPT !.active = FALSE ]
        n == Len(culled)
    IN  IF manager # "active" THEN off
        ELSE IF n = 0 THEN off
        ELSE LET s0 == [ off EXCEPT !.active = TRUE ]
                 s1 == IF n # s0.lightCount
                       THEN [ resetLights(s0, 0) EXCEPT !.lightCount = n ]
                       ELSE s0
                 cam == << camera.x, camera.y, camera.rotation, camera.zoom >>
                 s2 == IF camera.dirty
                       THEN [ Log(s1, "uCamera", 0, cam) EXCEPT !.uCamera = cam ]
                       ELSE s1
                 s3 == [ Log(s2, "uAmbientLightColor", 0, ambient)
                            EXCEPT !.uAmbientLightColor = ambient ]
                 s4 == syncLights(s3, 0, n, culled, camera, height)
             IN  [ s4 EXCEPT !.currentNormalMapRotation = NULL ]

\* `manager` is "none" (scene.sys.lights is not set), "empty" (its list of
\* lights is empty), "inactive" or "active"; `culled` is the list
\* lightManager.cull(camera) returns; `ambient` is lightManager.ambientColor.
onRender(s, manager, culled, camera, height, ambient) ==
    LET off == [ s EXCEPT !.active = FALSE ]
        n == Min(Len(culled), LIGHT_COUNT)
    IN  IF manager # "active" THEN off
        ELSE IF n = 0 THEN off
        ELSE LET s0 == [ off EXCEPT !.active = TRUE ]
                 s1 == IF n # s0.lightCount
                       THEN [ resetLights(s0, 0) EXCEPT !.lightCount = n ]
                       ELSE s0
                 cam == << camera.x, camera.y, camera.rotation, camera.zoom >>
                 s2 == IF camera.dirty
                       THEN [ Log(s1, "uCamera", 0, cam) EXCEPT !.uCamera = cam ]
                       ELSE s1
                 s3 == [ Log(s2, "uAmbientLightColor", 0, ambient)
                            EXCEPT !.uAmbientLightColor = ambient ]
                 s4 == syncLights(s3, 0, n, culled, camera, height)
             IN  [ s4 EXCEPT !.currentNormalMapRotation = NULL ]

\* ----------------------------------------------------------------- inputs

\* The lights, cameras and geometries (the corners of a quad and the light's
\* screen position) batchLight is called with.
Light1 == [ color |-> [ r |-> 1, g |-> 2, b |-> 3 ], intensity |-> 2, radius |-> 5, alpha |-> 2 ]

Light2 == [ color |-> [ r |-> 3, g |-> 1, b |-> 2 ], intensity |-> 3, radius |-> 7, alpha |-> 1 ]

Geometry1 ==
    [ q |-> [ x0 |-> 0, y0 |-> 0, x1 |-> 4, y1 |-> 0, x2 |-> 4, y2 |-> 4, x3 |-> 0, y3 |-> 4 ],
      lightX |-> 2, lightY |-> 2 ]

Geometry2 ==
    [ q |-> [ x0 |-> 1, y0 |-> 6, x1 |-> 3, y1 |-> 7, x2 |-> 5, y2 |-> 9, x3 |-> 2, y3 |-> 8 ],
      lightX |-> 11, lightY |-> 12 ]

\* The calls of batchLight: << light, camera, geometry >>.
BatchInputs ==
    { << Light1, [ alpha |-> 3 ], Geometry1 >>,
      << Light1, [ alpha |-> 3 ], Geometry2 >>,
      << Light2, [ alpha |-> 2 ], Geometry1 >> }

GameObject(displayTexture, texture, tileset, rotation) ==
    [ given |-> TRUE, displayTexture |-> displayTexture, texture |-> texture,
      tileset |-> tileset, rotation |-> rotation, frame |-> "frameTexture" ]

\* No game object (setTexture2D called without one).
NoGameObject ==
    [ given |-> FALSE, displayTexture |-> "absent", texture |-> "absent",
      tileset |-> "absent", rotation |-> 0, frame |-> "absent" ]

GameObjects ==
    { GameObject("absent", "normalA", "absent", 0),          \* a sprite with a normal map
      GameObject("absent", "normalA", "absent", MaxAngle),   \* the same, rotated
      GameObject("absent", "nodata", "absent", 1),           \* a sprite without one
      GameObject("normalB", "normalA", "absent", 1),         \* a render texture
      GameObject("nodata", "normalA", "absent", 0),          \* display texture without one
      GameObject("absent", "absent", "normalT", 0),          \* a tilemap layer
      GameObject("absent", "absent", "absent", MaxAngle) }   \* neither texture nor tileset

\* The camera of a pass: the same transform, changed since the last pass
\* (dirty) or not.
Camera(dirty) ==
    [ x |-> 3, y |-> 4, rotation |-> 1, zoom |-> 2, scrollX |-> 1, scrollY |-> 2,
      dirty |-> dirty, matrix |-> [ a |-> 2, b |-> 0, c |-> 0, d |-> 2, e |-> 3, f |-> 4 ] ]

\* renderer.height
Heights == { 20 }

\* lightManager.ambientColor
AmbientColors == { << 2, 3, 4 >> }

\* The radii the owner of a light gives it: every light can be set (and so
\* marked dirty) again, the first one to a different radius as well.
Radii(id) == IF id = 1 THEN { 50, 80 } ELSE { 50 + 10 * (id - 1) }

\* The lists cull(camera) can return: the lights of the manager that the
\* camera sees, in the manager's order.
RECURSIVE Culled(_)
Culled(id) ==
    IF id \notin LightIds THEN { << >> }
    ELSE Culled(id + 1) \cup { << id >> \o rest : rest \in Culled(id + 1) }

Managers == { "none", "empty", "inactive", "active" }

\* ------------------------------------------------------------------- Init

\* A Light as the light manager creates it: dirty until the first sync.
NewLight(id) ==
    [ x |-> id, y |-> 2 * id, scrollFactorX |-> 1, scrollFactorY |-> 1,
      r |-> id, g |-> id + 1, b |-> id + 2,
      intensity |-> id, radius |-> 50 + 10 * (id - 1), dirty |-> TRUE ]

ZeroSlot == [ position |-> << 0, 0 >>, color |-> << 0, 0, 0 >>, intensity |-> 0, radius |-> 0 ]

Init ==
    /\ vertexCount = 0
    /\ vertexViewF32 = [ i \in BufferCells |-> 0 ]
    /\ currentNormalMapRotation = UNDEFINED
    /\ inverseRotationMatrix = IdentityMatrix
    /\ lightCount = 0
    /\ active \in BOOLEAN
    /\ uLights = [ i \in Slots |-> ZeroSlot ]
    /\ uInverseRotationMatrix = << 0, 0, 0, 0, 0, 0, 0, 0, 0 >>
    /\ uCamera = << 0, 0, 0, 0 >>
    /\ uAmbientLightColor = << 0, 0, 0 >>
    /\ textureZero = "none"
    /\ normalTexture = "none"
    /\ lights = [ id \in LightIds |-> NewLight(id) ]
    /\ calls = << >>
    /\ last = [ op |-> "boot", arg |-> << >>, entry |-> << >>, repeat |-> FALSE ]
    /\ run = [ valid |-> TRUE, flushed |-> FALSE, quads |-> << >> ]

\* ---------------------------------------------------------------- actions

Flushed(log) == \E k \in DOMAIN log : log[k].op = "flush"

\* The handler `op` was called with `arg` and took the pipeline to s; `entry`
\* keeps what the handler found, where a later reader needs it.
Called(op, arg, entry, s) ==
    /\ Becomes(s)
    /\ last' = [ op |-> op, arg |-> arg, entry |-> entry,
                 repeat |-> (last.op = op /\ last.arg = arg) ]

\* A run of batchLight calls ends with any other call; the next one starts
\* if the batch is empty then.
EndRun(s) == run' = [ valid |-> (s.vertexCount = 0), flushed |-> FALSE, quads |-> << >> ]

\* The calls of a run are recorded up to one more than the buffer holds.
RunLimit == (VertexCapacity \div QuadVerts) + 1

BatchLightOf(inputs) ==
    \E arg \in inputs :
        \E s \in { batchLight(This, arg[1], arg[2], arg[3].q, arg[3].lightX, arg[3].lightY) } :
            /\ Called("batchLight", arg, << >>, s)
            /\ run' = IF run.valid /\ Len(run.quads) < RunLimit
                      THEN [ run EXCEPT !.quads = Append(@, arg),
                                        !.flushed = @ \/ Flushed(s.calls) ]
                      ELSE [ valid |-> FALSE, flushed |-> FALSE, quads |-> << >> ]

SetNormalMapRotationOf(angles) ==
    \E rotation \in angles :
        \E s \in { setNormalMapRotation(This, rotation) } :
            Called("setNormalMapRotation", << rotation >>, << >>, s) /\ EndRun(s)

BatchLight == BatchLightOf(BatchInputs)

SetNormalMapRotation == SetNormalMapRotationOf(Angles)

\* The binds; the entry value kept is the normal map getNormalMap resolved.
SetGameObject ==
    \E gameObject \in GameObjects, frame \in { "none", "otherFrame" } :
        \E s \in { setGameObject(This, gameObject, frame) } :
            Called("setGameObject", << gameObject, frame >>,
                   << getNormalMap(gameObject) >>, s) /\ EndRun(s)

SetTexture2D ==
    \E gameObject \in GameObjects \cup { NoGameObject }, texture \in { "none", "frameTexture" } :
        \E s \in { setTexture2D(This, texture, gameObject) } :
            Called("setTexture2D", << gameObject, texture >>,
                   << getNormalMap(gameObject) >>, s) /\ EndRun(s)

\* The renderer flushes the pipeline (end of the camera pass, pipeline change).
Flush ==
    \E s \in { flush(This) } :
        Called("flush", << >>, << >>, s) /\ EndRun(s)

\* A camera pass.  The argument kept is the manager, the culled list and
\* camera.dirty; the entry value kept is the set of slots whose radius was
\* not 0 when the pass began.
OnRenderOf(managers, lists, cameras) ==
    \E manager \in managers, height \in Heights, ambient \in AmbientColors :
        \E culled \in IF manager = "active" THEN lists ELSE { << >> },
           camera \in IF manager = "active" THEN cameras ELSE { Camera(TRUE) } :
            \E s \in { onRender(This, manager, culled, camera, height, ambient) } :
                /\ Called("onRender", << manager, culled, camera.dirty >>,
                          { i \in Slots : uLights[i].radius # 0 }, s)
                /\ EndRun(s)

\* The passes of a scene whose light manager is there and has lights, under
\* a camera that has not changed since the last pass.
OnRender == OnRenderOf({ "active", "inactive" }, Culled(1), { Camera(FALSE) })

\* The vertices handed to batchVert directly:
\* << x, y, lightX, lightY, radius, r, g, b, a >>.
Vertices == { << 21, 22, 23, 24, 25, 26, 27, 28, 29 >> }

\* batchVert called by itself.  It tests nothing, so the call is also made
\* on a full buffer, where the typed array drops the writes past its end.
BatchVert ==
    /\ vertexCount <= VertexCapacity
    /\ \E v \in Vertices :
          \E s \in { batchVert(This, v[1], v[2], v[3], v[4], v[5], v[6], v[7], v[8], v[9]) } :
              Called("batchVert", v, << >>, s) /\ EndRun(s)

\* Light.setRadius: the owner changes a light and marks it dirty.
SetRadius ==
    \E id \in LightIds : \E radius \in Radii(id) :
        \E s \in { [ This EXCEPT !.lights[id].radius = radius, !.lights[id].dirty = TRUE ] } :
            Called("setRadius", << >>, << >>, s) /\ EndRun(s)

\* One camera pass after another with a surface lit in between: the calls of
\* the batching side that leave vertices pending and a rotation recorded.
PassBatchLight == BatchLightOf({ << Light2, [ alpha |-> 2 ], Geometry2 >> })

PassSetNormalMapRotation == SetNormalMapRotationOf({ 1 })

\* The passes of any scene, its lights seen in part.
PassOnRender ==
    OnRenderOf(Managers, { << >>, << 1 >>, << 1, 2 >>, << 2, 3 >> }, { Camera(TRUE) })

\* The passes of one camera over a growing list of lights, the camera moved
\* before some passes and at rest before others.
CameraOnRender ==
    OnRenderOf({ "active", "inactive" }, { << >>, << 1 >>, << 1, 2 >>, << 1, 2, 3 >> },
               { Camera(TRUE), Camera(FALSE) })

\* The batching side: quads, rotation, binding, flush.
NextBatch ==
    \/ BatchLight
    \/ SetNormalMapRotation
    \/ SetGameObject
    \/ SetTexture2D
    \/ Flush

\* The sync side: the camera pass and the owner of the lights.
NextSync ==
    \/ OnRender
    \/ SetRadius

\* Camera passes and the batching between them.
NextPass ==
    \/ PassOnRender
    \/ PassBatchLight
    \/ PassSetNormalMapRotation
    \/ Flush

\* The passes of one camera, the lights changing between them.
NextCamera ==
    \/ CameraOnRender
    \/ SetRadius

\* Single vertices, whole quads and the flushes between them.
NextVert ==
    \/ BatchVert
    \/ PassBatchLight
    \/ Flush

Next ==
    \/ NextBatch
    \/ NextSync

Spec == Init /\ [][Next]_vars

SpecBatch == Init /\ [][NextBatch]_vars

SpecSync == Init /\ [][NextSync]_vars

SpecPass == Init /\ [][NextPass]_vars

SpecCamera == Init /\ [][NextCamera]_vars

SpecVert == Init /\ [][NextVert]_vars

\* ------------------------------------------------------- reading the state

\* Vertex k of the batch buffer: its nine cells.
VertexAt(k) ==
    [ j \in 1 .. vertexComponentCount |-> vertexViewF32[k * vertexComponentCount + j - 1] ]

\* The corners c0 .. c3 of a geometry.
Corner(geom, c) ==
    CASE c = 0 -> << geom.q.x0, geom.q.y0 >>
      [] c = 1 -> << geom.q.x1, geom.q.y1 >>
      [] c = 2 -> << geom.q.x2, geom.q.y2 >>
      [] c = 3 -> << geom.q.x3, geom.q.y3 >>

\* The corner each of the six vertices of a quad stands on.
TriangleCorners == << 0, 1, 2, 0, 2, 3 >>

\* The light fields every vertex of the call << light, camera, geometry >>
\* carries: lightX, lightY, radius, r, g, b, a.
LightFields(arg) ==
    << arg[3].lightX, arg[3].lightY, arg[1].radius,
       arg[1].color.r * arg[1].intensity,
       arg[1].color.g * arg[1].intensity,
       arg[1].color.b * arg[1].intensity,
       arg[2].alpha * arg[1].alpha >>

\* Vertex j (1 .. 6) of the quad of the call << light, camera, geometry >>.
QuadVertex(arg, j) == Corner(arg[3], TriangleCorners[j]) \o LightFields(arg)

Count(log, op) == Cardinality({ k \in DOMAIN log : log[k].op = op })

\* -------------------------------------------------------------- claims

\* C1: a run of N batchLight calls that starts from an empty batch, with
\* 6 * N <= the vertex capacity and no other call in between, never flushes,
\* ends with vertexCount = 6 * N, and leaves the quads in the buffer in call
\* order, each as the six corners (c0, c1, c2, c0, c2, c3) of its call.
C1_RunWithinCapacity ==
    (run.valid /\ QuadVerts * Len(run.quads) <= VertexCapacity) =>
        /\ ~run.flushed
        /\ vertexCount = QuadVerts * Len(run.quads)
        /\ \A n \in 1 .. Len(run.quads) : \A j \in 1 .. QuadVerts :
               VertexAt(QuadVerts * (n - 1) + j - 1) = QuadVertex(run.quads[n], j)

C1_Witness ==
    /\ run.valid
    /\ Len(run.quads) = VertexCapacity \div QuadVerts
    /\ Len(run.quads) >= 2
    /\ run.quads[1] # run.quads[2]
    /\ vertexCount = QuadVerts * Len(run.quads)

\* C2: a batchLight call made when fewer than 6 vertex places remain flushes
\* strictly before the first of its six vertices is written; no call flushes
\* between its vertices; the six vertices of a call lie next to each other
\* in one batch from a multiple of 6 on, and every flush submits a whole
\* number of quads.
C2_NoSplitQuad ==
    [][ /\ \A k \in DOMAIN calls' : calls'[k].op = "flush" => calls'[k].at % QuadVerts = 0
        /\ last'.op = "batchLight" =>
              LET full == vertexCount + QuadVerts > VertexCapacity
                  first == IF full THEN 2 ELSE 1
                  base == IF full THEN 0 ELSE vertexCount
              IN  /\ Len(calls') = first + QuadVerts - 1
                  /\ full => calls'[1] = Call("flush", vertexCount, << >>)
                  /\ \A j \in 1 .. QuadVerts :
                        /\ calls'[first + j - 1].op = "vert"
                        /\ calls'[first + j - 1].at = base + j - 1
                  /\ base % QuadVerts = 0
                  /\ vertexCount' = base + QuadVerts ]_vars

C2_Witness ==
    /\ last.op = "batchLight"
    /\ Len(calls) = QuadVerts + 1
    /\ calls[1].op = "flush"
    /\ calls[1].at = QuadVerts * (VertexCapacity \div QuadVerts)
    /\ vertexCount = QuadVerts

\* C9: all six vertices written by one batchLight call carry the same light
\* fields, a = C.alpha * L.alpha, r, g, b = L.color.{r, g, b} * L.intensity,
\* radius = L.radius and the given lightX, lightY, whatever the corners are.
C9_Premultiplied ==
    last.op = "batchLight" =>
        /\ vertexCount >= QuadVerts
        /\ \A k \in (vertexCount - QuadVerts) .. (vertexCount - 1) :
              /\ VertexAt(k)[3] = last.arg[3].lightX
              /\ VertexAt(k)[4] = last.arg[3].lightY
              /\ VertexAt(k)[5] = last.arg[1].radius
              /\ VertexAt(k)[6] = last.arg[1].color.r * last.arg[1].intensity
              /\ VertexAt(k)[7] = last.arg[1].color.g * last.arg[1].intensity
              /\ VertexAt(k)[8] = last.arg[1].color.b * last.arg[1].intensity
              /\ VertexAt(k)[9] = last.arg[2].alpha * last.arg[1].alpha

\* Two calls in a row with the same light and camera and different corners.
C9_Witness ==
    /\ last.op = "batchLight"
    /\ vertexCount = 2 * QuadVerts
    /\ last.arg[1].alpha * last.arg[2].alpha # last.arg[1].alpha
    /\ VertexAt(0)[9] = VertexAt(QuadVerts)[9]
    /\ VertexAt(0)[5] = VertexAt(QuadVerts)[5]
    /\ << VertexAt(0)[1], VertexAt(0)[2] >> # << VertexAt(QuadVerts)[1], VertexAt(QuadVerts)[2] >>

\* The number of lights a pass called with << manager, culled >> has to render.
Seen(arg) ==
    IF arg[1] = "active"
    THEN (IF Len(arg[2]) < LIGHT_COUNT THEN Len(arg[2]) ELSE LIGHT_COUNT)
    ELSE 0

Uploads(log) == Count(log, "uInverseRotationMatrix")

SameRotationAgain ==
    /\ last.op = "setNormalMapRotation"
    /\ last'.op = "setNormalMapRotation"
    /\ last'.arg = last.arg

\* C4, as stated: two calls of setNormalMapRotation in a row with the same
\* angle upload uInverseRotationMatrix at most once, the second call doing
\* nothing.
C4_AsStated ==
    [][ SameRotationAgain => (Uploads(calls) + Uploads(calls') <= 1 /\ calls' = << >>) ]_vars

\* C4, amended: the second of two such calls never flushes and leaves the
\* batch, the matrix, the uniform and the recorded angle as the first call
\* left them; it uploads the matrix again exactly when the batch is empty,
\* which it is whenever the first call uploaded: the two calls upload
\* either not at all or twice.
C4_SecondCallKeepsState ==
    [][ SameRotationAgain =>
          /\ ~Flushed(calls')
          /\ UNCHANGED << vertexCount, vertexViewF32, inverseRotationMatrix,
                          uInverseRotationMatrix, currentNormalMapRotation >>
          /\ Uploads(calls') = (IF vertexCount = 0 THEN 1 ELSE 0)
          /\ Uploads(calls) + Uploads(calls') \in { 0, 2 } ]_vars

\* The second call uploaded again.
C4_Witness ==
    /\ last.op = "setNormalMapRotation"
    /\ last.repeat
    /\ Uploads(calls) = 1
    /\ last.arg[1] # 0

\* C7: setNormalMapRotation with an angle other than the recorded one, with
\* vertices pending, flushes once, then uploads the matrix once; after it
\* the batch is empty and the recorded angle is the argument.
C7_FlushThenUpload ==
    [][ ( /\ last'.op = "setNormalMapRotation"
          /\ last'.arg[1] # currentNormalMapRotation
          /\ vertexCount > 0 ) =>
          /\ Len(calls') = 2
          /\ calls'[1] = Call("flush", vertexCount, << >>)
          /\ calls'[2].op = "uInverseRotationMatrix"
          /\ calls'[2].v = uInverseRotationMatrix'
          /\ vertexCount' = 0
          /\ currentNormalMapRotation' = last'.arg[1] ]_vars

C7_Witness ==
    /\ last.op = "setNormalMapRotation"
    /\ Len(calls) = 2
    /\ calls[1].op = "flush"
    /\ calls[1].at = QuadVerts
    /\ calls[2].op = "uInverseRotationMatrix"
    /\ last.arg[1] = 1
    /\ currentNormalMapRotation = 1

\* C8: setNormalMapRotation does nothing exactly when the angle is the
\* recorded one and vertices are pending; in every other case it uploads
\* the matrix once and records the angle.
C8_NoOpExactlyWhen ==
    [][ last'.op = "setNormalMapRotation" =>
          IF last'.arg[1] = currentNormalMapRotation /\ vertexCount > 0
          THEN /\ calls' = << >>
               /\ UNCHANGED << vertexCount, vertexViewF32, inverseRotationMatrix,
                               uInverseRotationMatrix, currentNormalMapRotation >>
          ELSE /\ Uploads(calls') = 1
               /\ currentNormalMapRotation' = last'.arg[1] ]_vars

C8_Witness ==
    /\ last.op = "setNormalMapRotation"
    /\ calls = << >>
    /\ vertexCount > 0
    /\ currentNormalMapRotation = last.arg[1]

\* A game object none of whose display texture, texture and tileset gives a
\* data source, or no game object at all.
NoNormalMap(gameObject) ==
    \/ ~gameObject.given
    \/ /\ gameObject.displayTexture \in { "absent", "nodata" }
       /\ gameObject.texture \in { "absent", "nodata" }
       /\ gameObject.tileset \in { "absent", "nodata" }

Binds == { "setGameObject", "setTexture2D" }

ExpectedPosition(id) == << 2 * id + 1, 20 - 4 * id >>

CountAt(log, op, i) == Cardinality({ k \in DOMAIN log : log[k].op = op /\ log[k].at = i })

GivesDataSource(source) == source \notin { "absent", "nodata" }

\* C13: getNormalMap returns the default normal map for no game object and
\* for one whose display texture, texture and tileset give no data source;
\* otherwise it returns the data source found first in the order display
\* texture, texture, tileset.
C13_FirstDataSource ==
    last.op \in Binds =>
        LET gameObject == last.arg[1]
        IN  last.entry[1] =
                IF ~gameObject.given THEN defaultNormalMap
                ELSE IF GivesDataSource(gameObject.displayTexture) THEN gameObject.displayTexture
                ELSE IF GivesDataSource(gameObject.texture) THEN gameObject.texture
                ELSE IF GivesDataSource(gameObject.tileset) THEN gameObject.tileset
                ELSE defaultNormalMap

\* C14: batchVert with vertexCount = k writes the nine cells 9k .. 9k + 8
\* with x, y, lightX, lightY, radius, r, g, b, a in that order, leaves every
\* other cell as it was, tests no capacity and flushes nothing, and counts
\* the vertex: vertexCount becomes k + 1.
C14_OneVertex ==
    [][ last'.op = "batchVert" =>
          LET k == vertexCount
              v == last'.arg
          IN  /\ \A c \in BufferCells :
                    vertexViewF32'[c] =
                        IF c \div vertexComponentCount = k
                        THEN v[(c % vertexComponentCount) + 1]
                        ELSE vertexViewF32[c]
              /\ vertexCount' = k + 1
              /\ calls' = << Call("vert", k, v) >> ]_vars

\* The second vertex written after a flush, on top of an older quad whose
\* third vertex is still in the buffer; the vertex after the last one
\* written is not touched.
C14_Witness ==
    /\ last.op = "batchVert"
    /\ vertexCount = 2
    /\ VertexAt(1) = << 21, 22, 23, 24, 25, 26, 27, 28, 29 >>
    /\ VertexAt(2) = QuadVertex(<< Light2, [ alpha |-> 2 ], Geometry2 >>, 3)

PendingAt(start, log, k) ==
    LET flushes == { j \in 1 .. (k - 1) : log[j].op = "flush" }
        since == IF flushes = { } THEN 0
                 ELSE CHOOSE j \in flushes : \A other \in flushes : other <= j
        verts == Cardinality({ j \in (since + 1) .. (k - 1) : log[j].op = "vert" })
    IN  (IF flushes = { } THEN start ELSE 0) + verts

BindingCalls == { "uInverseRotationMatrix", "setTextureZero", "setNormalMap" }

C17_WithinBuffer ==
    [][ /\ vertexCount' % QuadVerts = 0
        /\ vertexCount' >= 0
        /\ vertexCount' <= VertexCapacity
        /\ \A k \in DOMAIN calls' :
              /\ calls'[k].op = "vert" =>
                    /\ calls'[k].at < VertexCapacity
                    /\ calls'[k].at = PendingAt(vertexCount, calls', k)
              /\ calls'[k].op = "flush" => PendingAt(vertexCount, calls', k + 1) = 0
        /\ (last'.op = "batchLight" /\ vertexCount + QuadVerts > VertexCapacity) =>
              Flushed(calls')
        /\ last'.op = "flush" => vertexCount' = 0 ]_vars

\* A quad batched into a full buffer after a bind and a rotation: the buffer
\* was flushed and holds that quad alone.
C17_Witness ==
    /\ last.op = "batchLight"
    /\ Flushed(calls)
    /\ vertexCount = QuadVerts
    /\ normalTexture = "normalT"
    /\ currentNormalMapRotation = MaxAngle
    /\ VertexAt(QuadVerts * (VertexCapacity \div QuadVerts) - 1)[9] # 0

\* The places in the log of a pass where the radius of a slot is reset.
Resets(log) == { k \in DOMAIN log : log[k].op = "radius" /\ log[k].v = << 0 >> }

LightUploads == { "position", "color", "intensity", "radius" }

QuarterTurnMatrix(angle) ==
    CASE angle % 4 = 0 -> << 1, 0, 0, 0, 1, 0, 0, 0, 1 >>
      [] angle % 4 = 1 -> << 0, 0 - 1, 0, 1, 0, 0, 0, 0, 1 >>
      [] angle % 4 = 2 -> << 0 - 1, 0, 0, 0, 0 - 1, 0, 0, 0, 1 >>
      [] angle % 4 = 3 -> << 0, 1, 0, 0 - 1, 0, 0, 0, 0, 1 >>

\* The rows of a matrix uploaded with transpose = false (column by column).
Rows(m) == << << m[1], m[4], m[7] >>, << m[2], m[5], m[8] >>, << m[3], m[6], m[9] >> >>

\* C20: the matrix setNormalMapRotation uploads is the matrix of the angle
\* of that call, whatever was uploaded before: the identity for 0, and for
\* a quarter turn the rows (0, 1, 0), (-1, 0, 0), (0, 0, 1); entries [2],
\* [5], [6], [7] of the pipeline's matrix are always 0 and entry [8] is 1.
C20_MatrixOfAngle ==
    [][ /\ \A k \in DOMAIN calls' :
              calls'[k].op = "uInverseRotationMatrix" =>
                  /\ calls'[k].v = QuarterTurnMatrix(currentNormalMapRotation')
                  /\ uInverseRotationMatrix' = calls'[k].v
                  /\ currentNormalMapRotation' = 0 => calls'[k].v = IdentityMatrix
                  /\ currentNormalMapRotation' = 1 =>
                        Rows(calls'[k].v) =
                            << << 0, 1, 0 >>, << 0 - 1, 0, 0 >>, << 0, 0, 1 >> >>
        /\ last'.op = "setNormalMapRotation" => currentNormalMapRotation' = last'.arg[1]
        /\ inverseRotationMatrix'[3] = 0
        /\ inverseRotationMatrix'[6] = 0
        /\ inverseRotationMatrix'[7] = 0
        /\ inverseRotationMatrix'[8] = 0
        /\ inverseRotationMatrix'[9] = 1 ]_vars

\* setNormalMapRotation(0) uploads the identity over the matrix of the
\* rotated render texture bound and lit before it.
C20_Witness ==
    /\ last.op = "setNormalMapRotation"
    /\ last.arg = << 0 >>
    /\ Len(calls) = 2
    /\ calls[1] = Call("flush", QuadVerts, << >>)
    /\ calls[2] = Call("uInverseRotationMatrix", 0, IdentityMatrix)
    /\ normalTexture = "normalB"

====
